---- MODULE Spec2Model ----
(***************************************************************************)
(* Model of ReportGenerator (src/src/main.rs): the `new` scaffolder, the   *)
(* `compile` pipeline (metadata parser, fragment collector, document       *)
(* assembler) and the compiler invoker with its transient file tmp.typ.    *)
(*                                                                         *)
(* Text is a sequence of atoms.  An atom is either a delimiter the code    *)
(* looks for in that text (":" and "\n" in metadata.typ, "." and the       *)
(* digits in a file name) or an opaque run of characters the code never    *)
(* looks inside, so that concatenation of strings is \o and equality of    *)
(* strings is equality of sequences.                                       *)
(***************************************************************************)
EXTENDS Integers, Sequences, FiniteSets, TLC

\* ------------------------------------------------------------------ bounds
MaxTextLen == 6      \* atoms in a metadata file (SpecMeta)
MaxFiles == 3        \* files in a category directory (SpecCollect)
MaxRuns == 2         \* invocations of the tool per terminal (Spec)

VARIABLES
    metadata,    \* SpecMeta: the text read from metadata.typ
    parsed,      \* SpecMeta: outcome of the metadata loop
    dir,         \* SpecCollect: the entries of a category directory, as read_dir yields them
    collected,   \* SpecCollect: outcome of the collector loop and the join
    report_dir,  \* the report directory on disk: metadata.typ, sections/, findings/
    clock,       \* the local date
    assembled,   \* SpecAssemble: the outcomes of the assemblies run so far
    tmp_file,    \* Spec: tmp.typ in the working directory
    pc,          \* Spec: the statement each invocation of the tool is at
    step,        \* Spec: the statement of new_report an invocation is at
    cmd,         \* Spec: the subcommand of each invocation
    outcome,     \* Spec: how the last invocation of each terminal ended
    report,      \* Spec: the assembled text an invocation holds
    typst,       \* Spec: the typst child process of each invocation
    created,     \* Spec: the paths an invocation has created and not removed
    runs         \* Spec: invocations started so far on each terminal

pure_vars == <<metadata, parsed, dir, collected, assembled>>
tool_vars == <<tmp_file, pc, step, cmd, outcome, report, typst, created, runs>>
vars == <<metadata, parsed, dir, collected, report_dir, clock, assembled,
          tmp_file, pc, step, cmd, outcome, report, typst, created, runs>>

\* ------------------------------------------------------------- text helpers
Last(s) == s[Len(s)]
Front(s) == SubSeq(s, 1, Len(s) - 1)

RECURSIVE IndexFrom(_, _, _)
\* position of the first occurrence of atom c in s at or after i, 0 if none
IndexFrom(s, c, i) ==
    IF i > Len(s) THEN 0
    ELSE IF s[i] = c THEN i
    ELSE IndexFrom(s, c, i + 1)

RECURSIVE Split(_, _)
\* str::split(sep): the pieces between the separators, always at least one
Split(s, sep) ==
    LET i == IndexFrom(s, sep, 1)
    IN IF i = 0 THEN <<s>>
       ELSE <<SubSeq(s, 1, i - 1)>> \o Split(SubSeq(s, i + 1, Len(s)), sep)

\* str::lines(): split on "\n", a final empty piece is not a line
Lines(s) ==
    LET p == Split(s, "\n")
    IN IF Last(p) = <<>> THEN Front(p) ELSE p

RECURSIVE Join(_, _)
\* [String]::join(sep)
Join(ss, sep) ==
    IF ss = <<>> THEN <<>>
    ELSE IF Len(ss) = 1 THEN Head(ss)
    ELSE Head(ss) \o sep \o Join(Tail(ss), sep)

RECURSIVE SeqsUpTo(_, _)
\* all sequences over S of length at most n
SeqsUpTo(S, n) ==
    IF n = 0 THEN {<<>>}
    ELSE LET shorter == SeqsUpTo(S, n - 1)
         IN shorter \cup {Append(s, c) : s \in {t \in shorter : Len(t) = n - 1}, c \in S}

RECURSIVE Orders(_)
\* all orders in which the elements of the finite set S can be enumerated
Orders(S) ==
    IF S = {} THEN {<<>>}
    ELSE UNION { {<<x>> \o o : o \in Orders(S \ {x})} : x \in S }

\* ------------------------------------------------------------ the constants
TMP_FILE == "tmp.typ"

EXAMPLE_METADATA ==
    << "title", ":", "Example Pentest Report", "\n",
       "prepared_for", ":", "Example prepared for", "\n",
       "prepared_by", ":", "Example prepared by" >>
EXAMPLE_SECTION == << "= Example section\nLook at this gorgeus sections content\n#lorem(200)" >>
EXAMPLE_FINDING == << "= Example finding\nLook at this amazing finding\n#lorem(200)" >>
EXAMPLE_SUMMARY == << "= Summary\nExample summary content\n#lorem(200)" >>
EXAMPLE_METHODOLOGY == << "= Methodology\nExample methodology\n#lorem(200)" >>
EXAMPLE_SCOPE == << "= Scope\nExample scope\n#lorem(200)" >>

\* ---------------------------------------------------------- metadata parser
\* the three `let mut` values before the loop
DefaultMetadata ==
    [ report_title |-> << "[REPORT TITLE - CHANGE ME]" >>,
      prepared_for |-> << "[PREPARED FOR - CHANGE ME]" >>,
      prepared_by  |-> << "[PREPARED BY - CHANGE ME]" >> ]

\* the loop body with the catch-all arm of the match assigning the title
ParseMetadataLineCatchAllAssigns(vals, line) ==
    LET split == Split(line, ":")
    IN IF Len(split) < 2 THEN vals
       ELSE IF split[1] = <<"prepared_for">> THEN [vals EXCEPT !.prepared_for = split[2]]
       ELSE IF split[1] = <<"prepared_by">> THEN [vals EXCEPT !.prepared_by = split[2]]
       ELSE [vals EXCEPT !.report_title = split[2]]

\* one iteration of `for line in metadata.lines()`
ParseMetadataLine(vals, line) ==
    LET split == Split(line, ":")
    IN IF Len(split) < 2 THEN vals
       ELSE IF split[1] = <<"title">> THEN [vals EXCEPT !.report_title = split[2]]
       ELSE IF split[1] = <<"prepared_for">> THEN [vals EXCEPT !.prepared_for = split[2]]
       ELSE IF split[1] = <<"prepared_by">> THEN [vals EXCEPT !.prepared_by = split[2]]
       ELSE vals

RECURSIVE ParseMetadataFrom(_, _)
ParseMetadataFrom(vals, lines) ==
    IF lines = <<>> THEN vals
    ELSE ParseMetadataFrom(ParseMetadataLine(vals, Head(lines)), Tail(lines))

\* the whole loop over the text of metadata.typ
ParseMetadata(text) == ParseMetadataFrom(DefaultMetadata, Lines(text))

\* ------------------------------------------------------- fragment collector
DigitVal ==
    ("0" :> 0) @@ ("1" :> 1) @@ ("2" :> 2) @@ ("3" :> 3) @@ ("4" :> 4) @@
    ("5" :> 5) @@ ("6" :> 6) @@ ("7" :> 7) @@ ("8" :> 8) @@ ("9" :> 9)

RECURSIVE DecimalValue(_, _)
DecimalValue(acc, s) ==
    IF s = <<>> THEN acc ELSE DecimalValue(10 * acc + DigitVal[Head(s)], Tail(s))

\* str::parse::<usize>(): an optional '+', then one or more decimal digits;
\* -1 stands for Err(ParseIntError)
ParseUsize(s) ==
    LET digits == IF s # <<>> /\ Head(s) = "+" THEN Tail(s) ELSE s
    IN IF digits = <<>> \/ \E i \in 1..Len(digits) : digits[i] \notin DOMAIN DigitVal
       THEN -1
       ELSE DecimalValue(0, digits)

\* file_name().to_str().unwrap().split('.').next().unwrap().parse::<usize>()
FileId(file_name) == ParseUsize(Split(file_name, ".")[1])

\* the body placed without the page break in front
WrapWithoutPageBreak(content) == content

\* format!("\n#pagebreak()\n{content}")
Wrap(content) == << "\n", "#pagebreak()", "\n" >> \o content

\* the store written as `if let Some(slot) = sections.get_mut(id - 1)`: an
\* index outside the vector is skipped
StoreAtSkipsOutOfRange(slots, id, text) ==
    IF id = 0 \/ id - 1 >= Len(slots)
    THEN [status |-> "ok", slots |-> slots]
    ELSE [status |-> "ok", slots |-> [slots EXCEPT ![id] = text]]

\* the store keeping the first body placed in a slot
StoreAtKeepsFirst(slots, id, text) ==
    IF id = 0 \/ id - 1 >= Len(slots)
    THEN [status |-> "panic", slots |-> <<>>]
    ELSE [status |-> "ok", slots |-> IF slots[id] = <<>> THEN [slots EXCEPT ![id] = text] ELSE slots]

\* sections[id - 1] = ... on a Vec of length Len(slots).  With id = 0 the
\* subtraction overflows: a debug build panics there, a release build wraps
\* to usize::MAX and the index is out of bounds; either way the thread panics.
StoreAt(slots, id, text) ==
    IF id = 0 \/ id - 1 >= Len(slots)
    THEN [status |-> "panic", slots |-> <<>>]
    ELSE [status |-> "ok", slots |-> [slots EXCEPT ![id] = text]]

RECURSIVE CollectFrom(_, _)
\* the body of `for section in read_dir(..)?` over the entries still to come
CollectFrom(slots, entries) ==
    IF entries = <<>> THEN [status |-> "ok", slots |-> slots]
    ELSE LET id == FileId(Head(entries).file_name)
         IN IF id = -1 THEN [status |-> "err", slots |-> <<>>]
            ELSE LET st == StoreAt(slots, id, Wrap(Head(entries).content))
                 IN IF st.status # "ok" THEN st
                    ELSE CollectFrom(st.slots, Tail(entries))

\* the collector pushing each body as it is enumerated instead of indexing
CollectInEnumerationOrder(entries) ==
    LET bad == \E i \in 1..Len(entries) : FileId(entries[i].file_name) = -1
        slots == [i \in 1..Len(entries) |-> Wrap(entries[i].content)]
    IN [status |-> IF bad THEN "err" ELSE "ok",
        slots |-> IF bad THEN <<>> ELSE slots,
        joined |-> IF bad THEN <<>> ELSE Join(slots, <<"\n">>)]

\* vec![String::new(); read_dir(..)?.count()], the loop, then join("\n")
Collect(entries) ==
    LET r == CollectFrom([i \in 1..Len(entries) |-> <<>>], entries)
    IN [status |-> r.status,
        slots |-> r.slots,
        joined |-> IF r.status = "ok" THEN Join(r.slots, <<"\n">>) ELSE <<>>]

\* -------------------------------------------------------- document assembler
MonthName ==
    << "January", "February", "March", "April", "May", "June", "July",
       "August", "September", "October", "November", "December" >>
DigitStr == << "0", "1", "2", "3", "4", "5", "6", "7", "8", "9" >>
Digit(n) == DigitStr[n + 1]

\* date.format("%B %d, %Y"): full month name, two-digit day, four-digit year
FormatDate(d) ==
    << MonthName[d.month], " ",
       Digit(d.day \div 10), Digit(d.day % 10), ",", " ",
       Digit(d.year \div 1000), Digit((d.year \div 100) % 10),
       Digit((d.year \div 10) % 10), Digit(d.year % 10) >>

\* format!("{{{{ {} }}}}", name)
Placeholder(name) == "{{ " \o name \o " }}"

\* others/template.typ: fixed text with each of the six placeholders once
REPORT_TEMPLATE ==
    << "#set document(title: \"", "{{ report_title }}", "\")\n",
       "#align(center)[", "{{ date }}", "]\n",
       "Prepared for: ", "{{ prepared_for }}", "\n",
       "Prepared by: ", "{{ prepared_by }}", "\n",
       "#outline()\n",
       "{{ sections }}", "\n= Findings\n", "{{ findings }}", "\n" >>

RECURSIVE Replace(_, _, _)
\* str::replace(from, to) for a one-atom pattern
Replace(text, from, to) ==
    IF text = <<>> THEN <<>>
    ELSE (IF Head(text) = from THEN to ELSE <<Head(text)>>) \o Replace(Tail(text), from, to)

RECURSIVE Substitute(_, _)
\* `for element in context { report = report.replace(..) }`
Substitute(text, context) ==
    IF context = <<>> THEN text
    ELSE Substitute(Replace(text, Placeholder(Head(context)[1]), Head(context)[2]), Tail(context))

\* compile_report from the defaults to the end of the substitution loop, for
\* a directory whose sections and findings are enumerated in the given orders
AssembleReport(rd, section_order, finding_order, date) ==
    IF ~rd.exists THEN [status |-> "exit", report |-> <<>>]
    ELSE IF ~rd.metadata.exists THEN [status |-> "err", report |-> <<>>]
    ELSE LET m == ParseMetadata(rd.metadata.text)
         IN IF ~rd.sections.exists THEN [status |-> "err", report |-> <<>>]
            ELSE LET sec == Collect(section_order)
                 IN IF sec.status # "ok" THEN [status |-> sec.status, report |-> <<>>]
                    ELSE IF ~rd.findings.exists THEN [status |-> "err", report |-> <<>>]
                    ELSE LET fin == Collect(finding_order)
                         IN IF fin.status # "ok" THEN [status |-> fin.status, report |-> <<>>]
                            ELSE [status |-> "ok",
                                  report |-> Substitute(REPORT_TEMPLATE,
                                      << <<"report_title", m.report_title>>,
                                         <<"date", FormatDate(date)>>,
                                         <<"prepared_for", m.prepared_for>>,
                                         <<"prepared_by", m.prepared_by>>,
                                         <<"sections", sec.joined>>,
                                         <<"findings", fin.joined>> >>)]

\* a path that does not exist, and a directory with the given entries
Absent == [exists |-> FALSE, files |-> {}]
Folder(files) == [exists |-> TRUE, files |-> files]
NoReportDir ==
    [exists |-> FALSE, metadata |-> [exists |-> FALSE, text |-> <<>>],
     sections |-> Absent, findings |-> Absent]
Dates == { [year |-> 2024, month |-> 3, day |-> 5], [year |-> 2026, month |-> 11, day |-> 12] }
Today == [year |-> 2024, month |-> 3, day |-> 5]

\* ------------------------------------------------- the tool's invocations
Procs == {"t1", "t2"}
NoTmp == [exists |-> FALSE, text |-> <<>>, writer |-> "none"]
NoTypst == [state |-> "none", input |-> <<>>, input_writer |-> "none", status |-> 0]

\* no invocation has been started
ToolIdle ==
    /\ tmp_file = NoTmp
    /\ pc = [p \in Procs |-> "idle"]
    /\ step = [p \in Procs |-> 0]
    /\ cmd = [p \in Procs |-> "none"]
    /\ outcome = [p \in Procs |-> "none"]
    /\ report = [p \in Procs |-> <<>>]
    /\ typst = [p \in Procs |-> NoTypst]
    /\ created = [p \in Procs |-> {}]
    /\ runs = [p \in Procs |-> 0]

\* an invocation ends: the process is gone, what it created stays on disk
Terminate(p, how) ==
    /\ pc' = [pc EXCEPT ![p] = "idle"]
    /\ step' = [step EXCEPT ![p] = 0]
    /\ outcome' = [outcome EXCEPT ![p] = how]
    /\ report' = [report EXCEPT ![p] = <<>>]
    /\ typst' = [typst EXCEPT ![p] = NoTypst]

\* main(): the dispatch on the subcommand, and the first checks of
\* new_report and compile_report on the directory argument
Main(p) ==
    /\ pc[p] = "idle"
    /\ runs[p] < MaxRuns
    /\ runs' = [runs EXCEPT ![p] = @ + 1]
    /\ created' = [created EXCEPT ![p] = {}]
    /\ \E sub \in {"none", "other", "new", "compile"}, has_dir \in BOOLEAN :
        /\ cmd' = [cmd EXCEPT ![p] = sub]
        /\ IF sub = "none" THEN Terminate(p, "panic: GUI")
           ELSE IF sub = "other" THEN Terminate(p, "exit: Incorrect subcommand")
           ELSE IF ~has_dir THEN Terminate(p, "exit: Report path not provided")
           ELSE IF sub = "new" THEN
                IF report_dir.exists THEN Terminate(p, "exit: Directory already exists")
                ELSE /\ pc' = [pc EXCEPT ![p] = "new_report"]
                     /\ step' = [step EXCEPT ![p] = 1]
                     /\ outcome' = [outcome EXCEPT ![p] = "none"]
                     /\ UNCHANGED <<report, typst>>
           ELSE /\ pc' = [pc EXCEPT ![p] = "compile_report"]
                /\ outcome' = [outcome EXCEPT ![p] = "none"]
                /\ UNCHANGED <<step, report, typst>>
    /\ UNCHANGED <<pure_vars, report_dir, clock, tmp_file>>

\* ---------------------------------------------------------------- new_report
\* the statements of new_report after the existence check, in order
NEW_PLAN ==
    << [op |-> "create_dir", folder |-> ".", path |-> ".", name |-> <<>>, text |-> <<>>],
       [op |-> "create_new", folder |-> ".", path |-> "metadata.typ",
        name |-> <<"metadata", ".", "typ">>, text |-> EXAMPLE_METADATA],
       [op |-> "create_dir", folder |-> "sections", path |-> "sections", name |-> <<>>, text |-> <<>>],
       [op |-> "create_new", folder |-> "sections", path |-> "sections/1.summary.typ",
        name |-> <<"1", ".", "summary", ".", "typ">>, text |-> EXAMPLE_SUMMARY],
       [op |-> "create_new", folder |-> "sections", path |-> "sections/2.scope.typ",
        name |-> <<"2", ".", "scope", ".", "typ">>, text |-> EXAMPLE_SCOPE],
       [op |-> "create_new", folder |-> "sections", path |-> "sections/3.methodology.typ",
        name |-> <<"3", ".", "methodology", ".", "typ">>, text |-> EXAMPLE_METHODOLOGY],
       [op |-> "create_new", folder |-> "sections", path |-> "sections/4.example_section.typ",
        name |-> <<"4", ".", "example_section", ".", "typ">>, text |-> EXAMPLE_SECTION],
       [op |-> "create_dir", folder |-> "findings", path |-> "findings", name |-> <<>>, text |-> <<>>],
       [op |-> "create_new", folder |-> "findings", path |-> "findings/1.example_finding.typ",
        name |-> <<"1", ".", "example_finding", ".", "typ">>, text |-> EXAMPLE_FINDING] >>

\* whether the directory a statement works in, or creates, is there
FolderExists(rd, folder) ==
    IF folder = "." THEN rd.exists ELSE rd.exists /\ rd[folder].exists

\* whether the file a statement creates is there
FileExists(rd, folder, name) ==
    IF folder = "." THEN rd.exists /\ rd.metadata.exists
    ELSE FolderExists(rd, folder) /\ \E f \in rd[folder].files : f.file_name = name

\* the disk after create_dir
WithFolder(rd, folder) ==
    IF folder = "." THEN [rd EXCEPT !.exists = TRUE]
    ELSE [rd EXCEPT ![folder] = Folder({})]

\* the disk after File::create_new and what write_all got through
WithFile(rd, folder, name, text) ==
    IF folder = "." THEN [rd EXCEPT !.metadata = [exists |-> TRUE, text |-> text]]
    ELSE [rd EXCEPT ![folder].files = @ \cup {[file_name |-> name, content |-> text]}]

\* the statement moves on to the next one, or new_report returns Ok(())
NextStatement(p) ==
    IF step[p] = Len(NEW_PLAN)
    THEN Terminate(p, "ok")
    ELSE /\ step' = [step EXCEPT ![p] = @ + 1]
         /\ UNCHANGED <<pc, outcome, report, typst>>

\* one statement of new_report.  The operating system may refuse a
\* create_dir or create_new (io = "refuse") or fail the write_all after the
\* file was created (io = "short"); every `?` returns the error at once.
NewReportStatement(p) ==
    /\ pc[p] = "new_report"
    /\ LET st == NEW_PLAN[step[p]] IN
       \E io \in {"ok", "refuse", "short"} :
          IF st.op = "create_dir" THEN
              /\ io # "short"
              /\ IF io = "ok" /\ ~FolderExists(report_dir, st.folder)
                    /\ (st.folder = "." \/ report_dir.exists)
                 THEN /\ report_dir' = WithFolder(report_dir, st.folder)
                      /\ created' = [created EXCEPT ![p] = @ \cup {st.path}]
                      /\ NextStatement(p)
                 ELSE /\ Terminate(p, "err")
                      /\ UNCHANGED <<report_dir, created>>
          ELSE
              IF io # "refuse" /\ FolderExists(report_dir, st.folder)
                 /\ ~FileExists(report_dir, st.folder, st.name)
              THEN /\ created' = [created EXCEPT ![p] = @ \cup {st.path}]
                   /\ IF io = "ok"
                      THEN /\ report_dir' = WithFile(report_dir, st.folder, st.name, st.text)
                           /\ NextStatement(p)
                      ELSE /\ report_dir' = WithFile(report_dir, st.folder, st.name, <<>>)
                           /\ Terminate(p, "err")
              ELSE /\ Terminate(p, "err")
                   /\ UNCHANGED <<report_dir, created>>
    /\ UNCHANGED <<pure_vars, clock, tmp_file, cmd, runs>>

\* ------------------------------------------------------------ compile_report
\* compile_report from the existence check to the end of the substitution,
\* with every outcome the enumeration orders of the two folders allow
CompileReport(p) ==
    /\ pc[p] = "compile_report"
    /\ IF ~report_dir.exists THEN Terminate(p, "exit: Directory doesn't exist")
       ELSE \E r \in { AssembleReport(report_dir, so, fo, clock) :
                           so \in Orders(report_dir.sections.files),
                           fo \in Orders(report_dir.findings.files) } :
              IF r.status = "ok"
              THEN /\ report' = [report EXCEPT ![p] = r.report]
                   /\ pc' = [pc EXCEPT ![p] = "open_tmp"]
                   /\ UNCHANGED <<step, outcome, typst>>
              ELSE Terminate(p, r.status)
    /\ UNCHANGED <<pure_vars, report_dir, clock, tmp_file, cmd, created, runs>>

\* ----------------------------------------------------------- compile_to_file
\* the open written with create(true).truncate(true): an existing file is reused
OpenTmpTruncating(p) ==
    /\ pc[p] = "open_tmp"
    /\ tmp_file' = [exists |-> TRUE, text |-> <<>>, writer |-> p]
    /\ created' = [created EXCEPT ![p] = @ \cup {TMP_FILE}]
    /\ pc' = [pc EXCEPT ![p] = "write_tmp"]
    /\ UNCHANGED <<pure_vars, report_dir, clock, step, cmd, outcome, report, typst, runs>>

\* the open removing the file it found before giving up
OpenTmpClearsStale(p) ==
    /\ pc[p] = "open_tmp"
    /\ IF tmp_file.exists
       THEN /\ Terminate(p, "panic: Failed to open temporary file")
            /\ tmp_file' = NoTmp
            /\ UNCHANGED created
       ELSE /\ tmp_file' = [exists |-> TRUE, text |-> <<>>, writer |-> p]
            /\ created' = [created EXCEPT ![p] = @ \cup {TMP_FILE}]
            /\ pc' = [pc EXCEPT ![p] = "write_tmp"]
            /\ UNCHANGED <<step, outcome, report, typst>>
    /\ UNCHANGED <<pure_vars, report_dir, clock, cmd, runs>>

\* OpenOptions::new().write(true).create_new(true).open(TMP_FILE).expect(..)
OpenTmp(p) ==
    /\ pc[p] = "open_tmp"
    /\ \E io \in {"ok", "refuse"} :
         IF tmp_file.exists \/ io = "refuse"
         THEN /\ Terminate(p, "panic: Failed to open temporary file")
              /\ UNCHANGED <<tmp_file, created>>
         ELSE /\ tmp_file' = [exists |-> TRUE, text |-> <<>>, writer |-> p]
              /\ created' = [created EXCEPT ![p] = @ \cup {TMP_FILE}]
              /\ pc' = [pc EXCEPT ![p] = "write_tmp"]
              /\ UNCHANGED <<step, outcome, report, typst>>
    /\ UNCHANGED <<pure_vars, report_dir, clock, cmd, runs>>

\* tmp_file.write_all(report.as_bytes())?; drop(tmp_file)
WriteTmp(p) ==
    /\ pc[p] = "write_tmp"
    /\ \E io \in {"ok", "short"} :
         IF io = "ok"
         THEN /\ tmp_file' = [exists |-> tmp_file.exists, text |-> report[p], writer |-> p]
              /\ pc' = [pc EXCEPT ![p] = "spawn"]
              /\ UNCHANGED <<step, outcome, report, typst>>
         ELSE /\ Terminate(p, "err")
              /\ UNCHANGED tmp_file
    /\ UNCHANGED <<pure_vars, report_dir, clock, cmd, created, runs>>

\* Command::new("typst").args(..).spawn().expect(..)
SpawnTypst(p) ==
    /\ pc[p] = "spawn"
    /\ \E found \in BOOLEAN :
         IF found
         THEN /\ typst' = [typst EXCEPT ![p] = [NoTypst EXCEPT !.state = "running"]]
              /\ pc' = [pc EXCEPT ![p] = "wait"]
              /\ UNCHANGED <<step, outcome, report>>
         ELSE Terminate(p, "panic: Failed to execute typst")
    /\ UNCHANGED <<pure_vars, report_dir, clock, tmp_file, cmd, created, runs>>

\* the child process: typst compile tmp.typ <output> reads the file that is
\* there when it runs and exits with some status
TypstCompile(p) ==
    /\ typst[p].state = "running"
    /\ \E status \in {0, 1} :
         typst' = [typst EXCEPT ![p] =
                     IF tmp_file.exists
                     THEN [state |-> "exited", input |-> tmp_file.text,
                           input_writer |-> tmp_file.writer, status |-> status]
                     ELSE [state |-> "exited", input |-> <<>>,
                           input_writer |-> "none", status |-> 1]]
    /\ UNCHANGED <<pure_vars, report_dir, clock, tmp_file, pc, step, cmd, outcome, report, created, runs>>

\* .wait().expect(..): returns once the child has exited, whatever its status
WaitTypst(p) ==
    /\ pc[p] = "wait"
    /\ typst[p].state = "exited"
    /\ pc' = [pc EXCEPT ![p] = "remove_tmp"]
    /\ UNCHANGED <<pure_vars, report_dir, clock, tmp_file, step, cmd, outcome, report, typst, created, runs>>

\* remove_file(TMP_FILE).expect(..); Ok(())
RemoveTmp(p) ==
    /\ pc[p] = "remove_tmp"
    /\ \E io \in {"ok", "refuse"} :
         IF tmp_file.exists /\ io = "ok"
         THEN /\ tmp_file' = NoTmp
              /\ created' = [created EXCEPT ![p] = @ \ {TMP_FILE}]
              /\ Terminate(p, "ok")
         ELSE /\ Terminate(p, "panic: Failed to remove temporary file")
              /\ UNCHANGED <<tmp_file, created>>
    /\ UNCHANGED <<pure_vars, report_dir, clock, cmd, runs>>

Init ==
    /\ metadata = <<>>
    /\ parsed = [line_no |-> 0, vals |-> DefaultMetadata]
    /\ dir = <<>>
    /\ collected = [done |-> FALSE, status |-> "ok", slots |-> <<>>, joined |-> <<>>]
    /\ assembled = <<>>
    /\ report_dir = NoReportDir
    /\ clock = Today
    /\ ToolIdle

Next ==
    \E p \in Procs :
        \/ Main(p)
        \/ NewReportStatement(p)
        \/ CompileReport(p)
        \/ OpenTmp(p)
        \/ WriteTmp(p)
        \/ SpawnTypst(p)
        \/ TypstCompile(p)
        \/ WaitTypst(p)
        \/ RemoveTmp(p)

Spec == Init /\ [][Next]_vars

\* ----------------------------------------------- SpecMeta: the metadata loop
MetaAtoms == {":", "\n", "title", "prepared_for", "prepared_by"}
MetaTexts == SeqsUpTo(MetaAtoms, MaxTextLen)

InitMeta ==
    /\ metadata \in MetaTexts
    /\ parsed = [line_no |-> 0, vals |-> DefaultMetadata]
    /\ dir = <<>>
    /\ collected = [done |-> FALSE, status |-> "ok", slots |-> <<>>, joined |-> <<>>]
    /\ report_dir = NoReportDir
    /\ clock = Today
    /\ assembled = <<>>
    /\ ToolIdle

\* one turn of `for line in metadata.lines()`
HandleMetadataLine ==
    /\ parsed.line_no < Len(Lines(metadata))
    /\ parsed' = [line_no |-> parsed.line_no + 1,
                  vals |-> ParseMetadataLine(parsed.vals, Lines(metadata)[parsed.line_no + 1])]
    /\ UNCHANGED <<metadata, dir, collected, report_dir, clock, assembled, tool_vars>>

SpecMeta == InitMeta /\ [][HandleMetadataLine]_vars

\* the lines the loop has consumed, and whether it has consumed them all
LinesSeen == SubSeq(Lines(metadata), 1, parsed.line_no)
MetaDone == parsed.line_no = Len(Lines(metadata))

\* a line declares key k when it has a ':' and the text before the first ':' is k
Declares(line, k) ==
    /\ \E i \in 1..Len(line) : line[i] = ":"
    /\ LET c == CHOOSE i \in 1..Len(line) : line[i] = ":" /\ \A j \in 1..(i - 1) : line[j] # ":"
       IN SubSeq(line, 1, c - 1) = <<k>>

\* the text of the line after its first ':'
AfterFirstColon(line) ==
    LET c == CHOOSE i \in 1..Len(line) : line[i] = ":" /\ \A j \in 1..(i - 1) : line[j] # ":"
    IN SubSeq(line, c + 1, Len(line))

KeyField == [title |-> "report_title", prepared_for |-> "prepared_for", prepared_by |-> "prepared_by"]
Keys == DOMAIN KeyField

DeclaringLines(k) == {i \in 1..Len(LinesSeen) : Declares(LinesSeen[i], k)}

\* C2: once the loop is over, a recognized key declared on exactly one line
\* has as value the whole text after the first ':' of that line, further ':'
\* characters included.
C2_ValueIsTextAfterFirstColon ==
    MetaDone =>
        \A k \in Keys :
            Cardinality(DeclaringLines(k)) = 1 =>
                \A i \in DeclaringLines(k) :
                    parsed.vals[KeyField[k]] = AfterFirstColon(LinesSeen[i])

\* C3: at every point of the loop, a key that none of the consumed lines
\* declares still has its fixed placeholder: lines without ':' and lines with
\* another key change nothing, and an empty file yields the three defaults.
C3_UndeclaredKeysKeepDefaults ==
    /\ \A k \in Keys :
           DeclaringLines(k) = {} => parsed.vals[KeyField[k]] = DefaultMetadata[KeyField[k]]
    /\ metadata = <<>> => parsed.vals = [ report_title |-> << "[REPORT TITLE - CHANGE ME]" >>,
                                          prepared_for |-> << "[PREPARED FOR - CHANGE ME]" >>,
                                          prepared_by  |-> << "[PREPARED BY - CHANGE ME]" >> ]

\* a finished parse of a text with a colon-free line and a line with an
\* unrecognized key, where one key was declared and another was not
C3_Witness ==
    /\ MetaDone
    /\ Len(LinesSeen) >= 2
    /\ \E i \in 1..Len(LinesSeen) : \A j \in 1..Len(LinesSeen[i]) : LinesSeen[i][j] # ":"
    /\ \E i \in 1..Len(LinesSeen) :
           /\ \E j \in 1..Len(LinesSeen[i]) : LinesSeen[i][j] = ":"
           /\ \A k \in Keys : ~Declares(LinesSeen[i], k)
    /\ parsed.vals = DefaultMetadata

\* ------------------------------------------ SpecCollect: one category folder
StemNames == << "summary", "scope", "methodology", "finding", "notes" >>
Stems == {StemNames[i] : i \in 1..MaxFiles}
Prefixes == { <<>>, <<"0">>, <<"1">>, <<"2">>, <<"3">>, <<"x">>, <<"0", "1">>, <<"+", "2">>, <<"1", "0">> }

\* the file <prefix>.<stem>.typ; its content names the stem, so two files of
\* a directory never have the same content
FileOf(prefix, stem) ==
    [file_name |-> prefix \o << ".", stem, ".", "typ" >>,
     content |-> << "= " \o stem >>]

\* directories: at most one file per stem, any prefix
Dirs ==
    UNION { { {FileOf(pre[s], s) : s \in S} : pre \in [S -> Prefixes] } : S \in SUBSET Stems }

InitCollect ==
    /\ metadata = <<>>
    /\ parsed = [line_no |-> 0, vals |-> DefaultMetadata]
    /\ \E d \in Dirs : dir \in Orders(d)
    /\ collected = [done |-> FALSE, status |-> "ok", slots |-> <<>>, joined |-> <<>>]
    /\ report_dir = NoReportDir
    /\ clock = Today
    /\ assembled = <<>>
    /\ ToolIdle

HandleSections ==
    /\ ~collected.done
    /\ collected' = [done |-> TRUE] @@ Collect(dir)
    /\ UNCHANGED <<metadata, parsed, dir, report_dir, clock, assembled, tool_vars>>

SpecCollect == InitCollect /\ [][HandleSections]_vars

\* the ordinal of an entry, and the entries carrying a given ordinal
OrdinalAt(i) == FileId(dir[i].file_name)
Carriers(n) == {i \in 1..Len(dir) : OrdinalAt(i) = n}
LastCarrier(n) == CHOOSE i \in Carriers(n) : \A j \in Carriers(n) : j <= i

\* what slot n is expected to hold: a page break, then the body of the
\* last-enumerated file with ordinal n; nothing when no file has ordinal n
ExpectedSlot(n) ==
    IF Carriers(n) = {} THEN <<>>
    ELSE << "\n", "#pagebreak()", "\n" >> \o dir[LastCarrier(n)].content

RECURSIVE ExpectedJoined(_)
\* slots 1..n, a single newline between consecutive slots
ExpectedJoined(n) ==
    IF n = 0 THEN <<>>
    ELSE IF n = 1 THEN ExpectedSlot(1)
    ELSE ExpectedJoined(n - 1) \o <<"\n">> \o ExpectedSlot(n)

AllParse == \A i \in 1..Len(dir) : OrdinalAt(i) # -1
Dense == /\ AllParse
         /\ {OrdinalAt(i) : i \in 1..Len(dir)} = 1..Len(dir)
InRange == /\ AllParse
           /\ \A i \in 1..Len(dir) : OrdinalAt(i) \in 1..Len(dir)
Distinct == \A i, j \in 1..Len(dir) : OrdinalAt(i) = OrdinalAt(j) => i = j

\* C1: for a directory of N files with ordinals exactly {1..N}, in whatever
\* order it is enumerated, the collector succeeds and the joined output is
\* the N bodies in increasing ordinal order, each after a page break (the
\* first included), with a single newline between consecutive elements.
C1_DenseDirectoryJoinsInOrdinalOrder ==
    (collected.done /\ Dense) =>
        /\ collected.status = "ok"
        /\ Len(collected.slots) = Len(dir)
        /\ \A n \in 1..Len(dir) : Carriers(n) # {}
        /\ collected.joined = ExpectedJoined(Len(dir))

\* three files with ordinals 1..3 enumerated in decreasing ordinal order
C1_Witness ==
    /\ collected.done /\ Dense /\ Len(dir) = 3
    /\ OrdinalAt(1) = 3 /\ OrdinalAt(2) = 2 /\ OrdinalAt(3) = 1
    /\ collected.status = "ok"

\* C8: when some enumerated file has ordinal 0 or an ordinal greater than the
\* number of entries, the collection ends in a fatal error and yields no
\* joined text; so does every directory of N files with distinct ordinals
\* that are not exactly 1..N.
C8_OutOfRangeOrdinalAborts ==
    collected.done =>
        /\ (\E i \in 1..Len(dir) : OrdinalAt(i) = 0 \/ OrdinalAt(i) > Len(dir)) =>
               (collected.status \in {"panic", "err"} /\ collected.joined = <<>>)
        /\ (AllParse /\ Distinct /\ ~Dense) =>
               (collected.status = "panic" /\ collected.joined = <<>>)

\* two files with ordinals 1 and 3: the store of ordinal 3 panics
C8_Witness ==
    /\ collected.done /\ Len(dir) = 2
    /\ {OrdinalAt(1), OrdinalAt(2)} = {1, 3}
    /\ collected.status = "panic"

\* C10: when the N ordinals all lie in 1..N but are not all distinct, the
\* collection succeeds with exactly N slots; a slot holds the wrapped body of
\* the last-enumerated file with its ordinal, a slot no file claims is the
\* empty string, and the join keeps that slot as an empty element.
C10_DuplicateOrdinalsLastWins ==
    (collected.done /\ InRange /\ ~Distinct) =>
        /\ collected.status = "ok"
        /\ Len(collected.slots) = Len(dir)
        /\ \A n \in 1..Len(dir) : collected.slots[n] = ExpectedSlot(n)
        /\ collected.joined = ExpectedJoined(Len(dir))

\* three files, two of them with ordinal 1, one with ordinal 3: slot 2 empty
C10_Witness ==
    /\ collected.done /\ InRange /\ Len(dir) = 3
    /\ Cardinality(Carriers(1)) = 2 /\ Carriers(2) = {} /\ Cardinality(Carriers(3)) = 1
    /\ collected.status = "ok"
    /\ collected.slots[2] = <<>>
    /\ collected.slots[1] = << "\n", "#pagebreak()", "\n" >> \o dir[LastCarrier(1)].content

\* ------------------------------- SpecAssemble: two assemblies of a directory
MetadataSamples ==
    { EXAMPLE_METADATA,
      << "title", ":", "Acme Report", "\n", "prepared_for", ":", "Acme Co" >> }
FindingDirs == {d \in Dirs : \A f \in d : f.content = FileOf(<<>>, StemNames[1]).content}

InitAssemble ==
    /\ metadata = <<>>
    /\ parsed = [line_no |-> 0, vals |-> DefaultMetadata]
    /\ dir = <<>>
    /\ collected = [done |-> FALSE, status |-> "ok", slots |-> <<>>, joined |-> <<>>]
    /\ \E m \in MetadataSamples, s \in Dirs, f \in FindingDirs :
           report_dir = [exists |-> TRUE,
                         metadata |-> [exists |-> TRUE, text |-> m],
                         sections |-> Folder(s),
                         findings |-> Folder(f)]
    /\ clock \in Dates
    /\ assembled = <<>>
    /\ ToolIdle

\* one run of compile_report up to the assembled text; the directory is left
\* as it is and each run sees its own enumeration orders
AssembleAgain ==
    /\ Len(assembled) < 2
    /\ \E so \in Orders(report_dir.sections.files), fo \in Orders(report_dir.findings.files) :
           assembled' = Append(assembled, AssembleReport(report_dir, so, fo, clock))
    /\ UNCHANGED <<metadata, parsed, dir, collected, report_dir, clock, tool_vars>>

SpecAssemble == InitAssemble /\ [][AssembleAgain]_vars

\* C4: two successful assemblies of the same unmodified directory on the same
\* date give the same text, whatever enumeration orders the two runs saw.
C4_AssemblingTwiceGivesSameText ==
    (Len(assembled) = 2 /\ assembled[1].status = "ok" /\ assembled[2].status = "ok") =>
        assembled[1].report = assembled[2].report

\* ------------------------------------------------- properties of the tool
\* text `part` occurs in text `whole`
Contains(whole, part) ==
    \E i \in 0..(Len(whole) - Len(part)) : SubSeq(whole, i + 1, i + Len(part)) = part

\* the layout a finished `new` is expected to leave
Scaffolded ==
    [exists |-> TRUE,
     metadata |-> [exists |-> TRUE,
                   text |-> << "title", ":", "Example Pentest Report", "\n",
                               "prepared_for", ":", "Example prepared for", "\n",
                               "prepared_by", ":", "Example prepared by" >>],
     sections |-> Folder({
         [file_name |-> <<"1", ".", "summary", ".", "typ">>, content |-> EXAMPLE_SUMMARY],
         [file_name |-> <<"2", ".", "scope", ".", "typ">>, content |-> EXAMPLE_SCOPE],
         [file_name |-> <<"3", ".", "methodology", ".", "typ">>, content |-> EXAMPLE_METHODOLOGY],
         [file_name |-> <<"4", ".", "example_section", ".", "typ">>, content |-> EXAMPLE_SECTION]}),
     findings |-> Folder({
         [file_name |-> <<"1", ".", "example_finding", ".", "typ">>, content |-> EXAMPLE_FINDING]})]

PageBreak == << "\n", "#pagebreak()", "\n" >>

\* the four example sections in ordinal order and the example finding, each
\* after a page break, consecutive ones a newline apart
RoundTripSections ==
    PageBreak \o EXAMPLE_SUMMARY \o <<"\n">> \o PageBreak \o EXAMPLE_SCOPE \o <<"\n">> \o
    PageBreak \o EXAMPLE_METHODOLOGY \o <<"\n">> \o PageBreak \o EXAMPLE_SECTION
RoundTripFindings == PageBreak \o EXAMPLE_FINDING

\* `new` on a fresh path leaves the scaffold, and a compile_report that runs
\* on the scaffold succeeds with a text holding the given title and the five
\* bodies
RoundTrip(title) ==
    /\ \A q \in Procs : (cmd'[q] = "new" /\ outcome'[q] = "ok") => report_dir' = Scaffolded
    /\ \A p \in Procs :
           (pc[p] = "compile_report" /\ pc'[p] # "compile_report" /\ report_dir = Scaffolded) =>
               /\ pc'[p] = "open_tmp"
               /\ Contains(report'[p], title)
               /\ Contains(report'[p], RoundTripSections)
               /\ Contains(report'[p], RoundTripFindings)

\* C5 as stated: scaffolding a fresh directory and assembling it at once
\* succeeds, and the text contains the default title placeholder and the five
\* example bodies, each after a page break, sections in ordinal order 1..4.
C5_RoundTripHasDefaultTitlePlaceholder ==
    [][RoundTrip(<< "[REPORT TITLE - CHANGE ME]" >>)]_vars

\* C5 amended: the same round trip, the text containing the example title
\* "Example Pentest Report" written by the scaffolder.
C5_RoundTripHasExampleTitle ==
    [][RoundTrip(<< "Example Pentest Report" >>)]_vars

\* one terminal ran `new` to the end, another assembled the scaffold
C5_Witness ==
    \E p, q \in Procs :
        /\ cmd[q] = "new" /\ outcome[q] = "ok" /\ pc[q] = "idle"
        /\ report_dir = Scaffolded
        /\ cmd[p] = "compile" /\ pc[p] = "open_tmp"
        /\ Contains(report[p], << "Example Pentest Report" >>)
        /\ Contains(report[p], RoundTripSections)

\* C6: a compile that reaches the open of tmp.typ while the file exists
\* panics; the file keeps its content and stays, and typst is not started.
C6_ExistingTmpFileIsFatal ==
    [][\A p \in Procs :
          (pc[p] = "open_tmp" /\ pc'[p] # "open_tmp" /\ tmp_file.exists) =>
              /\ pc'[p] = "idle"
              /\ outcome'[p] = "panic: Failed to open temporary file"
              /\ tmp_file' = tmp_file
              /\ \A q \in Procs : typst'[q] = typst[q]
              /\ typst'[p].state = "none"]_vars

\* a compile panicked at the open on the file a finished invocation left
C6_Witness ==
    \E p, q \in Procs :
        /\ p # q
        /\ outcome[p] = "panic: Failed to open temporary file"
        /\ tmp_file.exists /\ tmp_file.writer = q /\ tmp_file.text # <<>>
        /\ pc[q] = "idle" /\ outcome[q] = "panic: Failed to execute typst"

\* an invocation between creating tmp.typ and removing it
InSection(p) == pc[p] \in {"write_tmp", "spawn", "wait", "remove_tmp"}

\* C7: at most one invocation at a time is between creating tmp.typ and
\* removing it, the file is the one it created, and typst reads the text
\* written by the invocation that started it.
C7_TmpFileIsExclusive ==
    /\ \A p, q \in Procs : (InSection(p) /\ InSection(q)) => p = q
    /\ \A p \in Procs : InSection(p) => (tmp_file.exists /\ tmp_file.writer = p)
    /\ \A p \in Procs :
           typst[p].state = "exited" =>
               (typst[p].input_writer = p /\ typst[p].input = report[p])

\* typst of one invocation has read its text while the other invocation was
\* turned away at the open
C7_Witness ==
    \E p, q \in Procs :
        /\ p # q
        /\ pc[p] = "remove_tmp" /\ typst[p].state = "exited"
        /\ typst[p].input = report[p] /\ report[p] # <<>>
        /\ outcome[q] = "panic: Failed to open temporary file"

\* an invocation that ended with a fatal error
Fatal(p) == pc[p] = "idle" /\ outcome[p] \notin {"none", "ok"}

\* C9: an invocation that ended with a fatal error has left nothing it
\* created, except tmp.typ when typst could not be run; a failed `new` has
\* created no directory and no file, and a compile that ran typst to the end
\* has removed tmp.typ.
C9_FatalErrorLeavesNoPartialOutput ==
    \A p \in Procs :
        /\ Fatal(p) =>
               created[p] \subseteq
                   (IF outcome[p] = "panic: Failed to execute typst" THEN {TMP_FILE} ELSE {})
        /\ (Fatal(p) /\ cmd[p] = "new") => created[p] = {}
        /\ (cmd[p] = "compile" /\ pc[p] = "idle" /\ outcome[p] = "ok") => TMP_FILE \notin created[p]

====
